---- MODULE Spec2Model ----
(***************************************************************************)
(* A model of the UiPath Orchestrator client (uipathlib/uipath.py) and of  *)
(* the pydantic schemas it validates responses against (models.py).        *)
(*                                                                         *)
(* One action stands for one public method of the client.  The server is   *)
(* the environment: every action draws the answer(s) of the server (status *)
(* code and body) from bounded sets.  The variables call, reqs, result and *)
(* log describe the most recent invocation; configuration and files are    *)
(* the state that persists between invocations.                            *)
(***************************************************************************)
EXTENDS Integers, Sequences, FiniteSets, TLC

VARIABLES
    phase,          \* "init": __init__ has stored the configuration; "ready": constructed; "failed": __init__ raised
    configuration,  \* UiPath.Configuration
    files,          \* the local file system: path -> None | <<bytes>>
    call,           \* the most recent invocation: its method and arguments
    reqs,           \* the HTTP exchanges of the most recent invocation, in order
    result,         \* how the most recent invocation ended: returned Response or raised exception
    log,            \* the records the most recent invocation sent to the logger
    ctor_status     \* status code of the token request sent by __init__ (0 before it)

vars == <<phase, configuration, files, call, reqs, result, log, ctor_status>>

-----------------------------------------------------------------------------
(* Bounds of the model *)

\* longest "value" array in a response body
MaxItems == 1

\* longest "value" array handed to _handle_response on its own
MaxValues == 2

-----------------------------------------------------------------------------
(* Python values *)

\* Optional[str]: None is the empty tuple, a string s is <<s>>
None == <<>>
Some(x) == <<x>>

\* str(x) as an f-string formats an Optional[str]
Format(x) == IF x = None THEN "None" ELSE x[1]

\* JSON documents; scalars keep their text in v
JStr(s) == [t |-> "str", v |-> s]
JInt(s) == [t |-> "int", v |-> s]
JBool(s) == [t |-> "bool", v |-> s]
JNull == [t |-> "null", v |-> ""]
JList(seq) == [t |-> "list", e |-> seq]
JObj(f) == [t |-> "obj", o |-> f]

\* Python values of a validated record
PyNone == [t |-> "None", v |-> ""]
PyVal(type, text) == [t |-> type, v |-> text]

\* bytes of a response body: a JSON text (doc is what it parses to) or something else
JsonBytes(doc) == [bytes |-> "json", doc |-> doc]
NotJson == [bytes |-> "text", doc |-> JNull]

\* exception classes and their base classes
Bases(exc) ==
    CASE exc = "JSONDecodeError" -> {"JSONDecodeError", "ValueError", "Exception"}
      [] exc = "ValidationError" -> {"ValidationError", "ValueError", "Exception"}
      [] exc = "KeyError" -> {"KeyError", "LookupError", "Exception"}
      [] exc = "TypeError" -> {"TypeError", "Exception"}
      [] exc = "FileNotFoundError" -> {"FileNotFoundError", "OSError", "Exception"}
      [] OTHER -> {exc, "Exception"}

IsInstance(exc, cls) == cls \in Bases(exc)

-----------------------------------------------------------------------------
(* HTTP status codes the code tests for *)

HTTP_OK == 200
HTTP_CREATED == 201
HTTP_NO_CONTENT == 204
HTTP_CONFLICT == 409

\* the status codes the server answers with; 401 is one that no method tests for
StatusCodes == {HTTP_OK, HTTP_CREATED, HTTP_NO_CONTENT, HTTP_CONFLICT, 401}

-----------------------------------------------------------------------------
(* models.py: the schemas.  A field has a local name, a vendor alias, a    *)
(* type and is required or Optional with default None.                     *)

Field(name, alias, type, required) ==
    [name |-> name, alias |-> alias, type |-> type, required |-> required, pre |-> "none"]

ListAssets == <<
    Field("id", "Id", "int", TRUE),
    Field("name", "Name", "str", TRUE),
    Field("external_name", "ExternalName", "str", FALSE),
    Field("has_default_value", "HasDefaultValue", "bool", TRUE),
    Field("value", "Value", "str", TRUE),
    Field("value_scope", "ValueScope", "str", TRUE),
    Field("value_type", "ValueType", "str", TRUE),
    Field("int_value", "IntValue", "int", TRUE),
    Field("string_value", "StringValue", "str", TRUE),
    Field("bool_value", "BoolValue", "bool", TRUE),
    Field("credential_username", "CredentialUsername", "str", TRUE),
    Field("credential_store_id", "CredentialStoreId", "int", FALSE),
    Field("can_be_deleted", "CanBeDeleted", "bool", TRUE),
    Field("description", "Description", "str", FALSE) >>

ListBuckets == <<
    Field("id", "Id", "int", TRUE),
    Field("identifier", "Identifier", "str", TRUE),
    Field("name", "Name", "str", TRUE),
    Field("description", "Description", "str", FALSE) >>

ListCalendars == <<
    Field("id", "Id", "int", TRUE),
    Field("name", "Name", "str", TRUE),
    Field("excluded_dates", "ExcludedDates", "list", TRUE),
    Field("time_zone_id", "TimeZoneId", "str", FALSE) >>

ListEnvironments == <<
    Field("id", "Id", "int", TRUE),
    Field("name", "Name", "str", TRUE),
    Field("type", "Type", "str", TRUE),
    Field("description", "Description", "str", FALSE) >>

ListJobs == <<
    Field("id", "Id", "int", TRUE),
    Field("key", "Key", "str", TRUE),
    Field("release_name", "ReleaseName", "str", TRUE),
    Field("host_machine_name", "HostMachineName", "str", FALSE),
    Field("type", "Type", "str", TRUE),
    Field("starting_schedule_id", "StartingScheduleId", "int", FALSE),
    Field("creation_time", "CreationTime", "datetime", FALSE),
    Field("start_time", "StartTime", "datetime", FALSE),
    Field("end_time", "EndTime", "datetime", FALSE),
    Field("state", "State", "str", TRUE),
    Field("source", "Source", "str", TRUE) >>

\* robot_versions passes through the pre-validator extract_robot_version
ListMachines == <<
    Field("id", "Id", "int", TRUE),
    Field("name", "Name", "str", TRUE),
    Field("description", "Description", "str", FALSE),
    Field("type", "Type", "str", TRUE),
    Field("non_production_slots", "NonProductionSlots", "int", TRUE),
    Field("unattended_slots", "UnattendedSlots", "int", TRUE),
    [name |-> "robot_versions", alias |-> "RobotVersions", type |-> "str", required |-> FALSE,
     pre |-> "extract_robot_version"] >>

ListProcesses == <<
    Field("id", "Id", "str", TRUE),
    Field("key", "Key", "str", TRUE),
    Field("version", "Version", "str", TRUE),
    Field("published", "Published", "datetime", TRUE),
    Field("authors", "Authors", "str", TRUE),
    Field("description", "Description", "str", FALSE) >>

ListQueues == <<
    Field("id", "Id", "int", TRUE),
    Field("name", "Name", "str", TRUE),
    Field("description", "Description", "str", FALSE) >>

ListQueueItems == <<
    Field("id", "Id", "int", TRUE),
    Field("queue_definition_id", "QueueDefinitionId", "int", TRUE),
    Field("status", "Status", "str", TRUE),
    Field("reference", "Reference", "str", TRUE),
    Field("creation_time", "CreationTime", "datetime", TRUE),
    Field("start_processing", "StartProcessing", "datetime", FALSE),
    Field("end_processing", "EndProcessing", "datetime", FALSE),
    Field("retry_number", "RetryNumber", "int", TRUE),
    Field("specific_data", "SpecificData", "str", TRUE) >>

GetQueueItem == <<
    Field("id", "Id", "int", TRUE),
    Field("queue_definition_id", "QueueDefinitionId", "int", TRUE),
    Field("status", "Status", "str", TRUE),
    Field("reference", "Reference", "str", TRUE),
    Field("creation_time", "CreationTime", "datetime", TRUE),
    Field("start_processing", "StartProcessing", "datetime", FALSE),
    Field("end_processing", "EndProcessing", "datetime", FALSE),
    Field("retry_number", "RetryNumber", "int", TRUE),
    Field("specific_data", "SpecificData", "str", TRUE) >>

AddQueueItem == <<
    Field("id", "Id", "int", TRUE),
    Field("organization_unit_id", "OrganizationUnitId", "int", TRUE),
    Field("queue_definition_id", "QueueDefinitionId", "int", TRUE) >>

ListReleases == <<
    Field("id", "Id", "int", TRUE),
    Field("key", "Key", "str", TRUE),
    Field("process_key", "ProcessKey", "str", TRUE),
    Field("process_version", "ProcessVersion", "str", TRUE),
    Field("environment_id", "EnvironmentId", "str", FALSE) >>

ListRobots == <<
    Field("id", "Id", "int", TRUE),
    Field("machine_name", "MachineName", "str", FALSE),
    Field("name", "Name", "str", TRUE),
    Field("username", "Username", "str", TRUE),
    Field("type", "Type", "str", TRUE),
    Field("robot_environments", "RobotEnvironments", "str", TRUE) >>

ListRobotLogs == <<
    Field("id", "Id", "int", TRUE),
    Field("job_key", "JobKey", "str", TRUE),
    Field("level", "Level", "str", TRUE),
    Field("windows_identity", "WindowsIdentity", "str", TRUE),
    Field("process_name", "ProcessName", "str", TRUE),
    Field("time_stamp", "TimeStamp", "str", TRUE),
    Field("message", "Message", "str", TRUE),
    Field("robot_name", "RobotName", "str", TRUE),
    Field("Machine_id", "MachineId", "int", TRUE) >>

ListRoles == <<
    Field("id", "Id", "int", TRUE),
    Field("name", "Name", "str", TRUE),
    Field("display_name", "DisplayName", "str", TRUE),
    Field("type", "Type", "str", TRUE) >>

ListSchedules == <<
    Field("id", "Id", "int", TRUE),
    Field("name", "Name", "str", TRUE),
    Field("package_name", "PackageName", "str", TRUE),
    Field("environment_id", "EnvironmentId", "str", FALSE),
    Field("environment_name", "EnvironmentName", "str", FALSE),
    Field("start_process_cron", "StartProcessCron", "str", TRUE),
    Field("start_process_cron_summary", "StartProcessCronSummary", "str", TRUE),
    Field("enabled", "Enabled", "bool", TRUE) >>

ListSessions == <<
    Field("id", "Id", "int", TRUE),
    Field("machine_id", "MachineId", "str", FALSE),
    Field("host_machine_name", "HostMachineName", "str", TRUE),
    Field("machine_name", "MachineName", "str", FALSE),
    Field("state", "State", "str", TRUE),
    Field("reporting_time", "ReportingTime", "str", TRUE),
    Field("organization_unit_id", "OrganizationUnitId", "str", FALSE),
    Field("folder_name", "FolderName", "str", FALSE) >>

Schemas == {ListAssets, ListBuckets, ListCalendars, ListEnvironments, ListJobs, ListMachines,
            ListProcesses, ListQueues, ListQueueItems, GetQueueItem, AddQueueItem, ListReleases,
            ListRobots, ListRobotLogs, ListRoles, ListSchedules, ListSessions}

-----------------------------------------------------------------------------
(* pydantic v1: validation of one JSON object against a schema *)

Range(seq) == {seq[i] : i \in 1..Len(seq)}

Ok(val) == [ok |-> TRUE, val |-> val]
Err == [ok |-> FALSE, val |-> PyNone]

\* texts that int() and the datetime parser read as a number
NumericTexts == {"0", "1", "7"}
\* texts the datetime parser reads as an ISO 8601 date
IsoTexts == {"2024-01-01T00:00:00Z"}

\* the field validators of pydantic v1 for the annotated types of the schemas
Coerce(type, x) ==
    CASE type = "int" ->
            IF x.t = "int" THEN Ok(PyVal("int", x.v))
            ELSE IF x.t = "str" /\ x.v \in NumericTexts THEN Ok(PyVal("int", x.v))
            ELSE IF x.t = "bool" THEN Ok(PyVal("int", IF x.v = "true" THEN "1" ELSE "0"))
            ELSE Err
      [] type = "str" ->
            IF x.t = "str" THEN Ok(PyVal("str", x.v))
            ELSE IF x.t = "int" THEN Ok(PyVal("str", x.v))
            ELSE IF x.t = "bool" THEN Ok(PyVal("str", IF x.v = "true" THEN "True" ELSE "False"))
            ELSE Err
      [] type = "bool" ->
            IF x.t = "bool" THEN Ok(PyVal("bool", x.v))
            ELSE IF x.t \in {"int", "str"} /\ x.v \in {"0", "1"}
                 THEN Ok(PyVal("bool", IF x.v = "1" THEN "true" ELSE "false"))
            ELSE IF x.t = "str" /\ x.v \in {"true", "false"} THEN Ok(PyVal("bool", x.v))
            ELSE Err
      [] type = "datetime" ->
            IF x.t = "str" /\ x.v \in IsoTexts THEN Ok(PyVal("datetime", x.v))
            ELSE IF x.t \in {"int", "str"} /\ x.v \in NumericTexts
                 THEN Ok(PyVal("datetime", "epoch+" \o x.v))
            ELSE Err
      [] type = "list" ->
            IF x.t = "list" THEN Ok([t |-> "list", e |-> x.e]) ELSE Err
      [] OTHER -> Err

\* extract_robot_version taking the last element of the list instead of the first
extract_robot_version_Last(value) ==
    IF value.t = "list" /\ Len(value.e) > 0 /\ value.e[Len(value.e)].t = "obj"
    THEN IF "Version" \in DOMAIN value.e[Len(value.e)].o
         THEN value.e[Len(value.e)].o["Version"]
         ELSE JNull
    ELSE JNull

\* ListMachines.extract_robot_version, a pre-validator
extract_robot_version(value) ==
    IF value.t = "list" /\ Len(value.e) > 0 /\ value.e[1].t = "obj"
    THEN IF "Version" \in DOMAIN value.e[1].o THEN value.e[1].o["Version"] ELSE JNull
    ELSE JNull

\* one field of a schema, populated by its alias from the object o
ValidateField(f, o) ==
    IF f.alias \notin DOMAIN o
    THEN IF f.required THEN Err ELSE Ok(PyNone)
    ELSE LET pre == IF f.pre = "extract_robot_version"
                    THEN extract_robot_version(o[f.alias])
                    ELSE o[f.alias]
         IN IF pre.t = "null"
            THEN IF f.required THEN Err ELSE Ok(PyNone)
            ELSE Coerce(f.type, pre)

FieldNamed(model, n) == CHOOSE f \in Range(model) : f.name = n

\* ValidateModel with the record keyed by the aliases, as .dict(by_alias=True) would
ValidateModel_ByAlias(model, o) ==
    IF \A f \in Range(model) : ValidateField(f, o).ok
    THEN Ok([a \in {f.alias : f \in Range(model)} |->
                ValidateField(CHOOSE f \in Range(model) : f.alias = a, o).val])
    ELSE Err

\* model(**o).dict(): the record keyed by the local field names
ValidateModel(model, o) ==
    IF \A f \in Range(model) : ValidateField(f, o).ok
    THEN Ok([n \in {f.name : f \in Range(model)} |-> ValidateField(FieldNamed(model, n), o).val])
    ELSE Err

-----------------------------------------------------------------------------
(* The Response dataclass and the ways an invocation ends *)

NoContent == [kind |-> "None", items |-> <<>>]
ListContent(items) == [kind |-> "list", items |-> items]
DictContent(d) == [kind |-> "dict", items |-> <<d>>]

NoResult == [outcome |-> "none", status_code |-> 0, content |-> NoContent, flag |-> FALSE, exc |-> ""]
\* return self.Response(status_code=..., content=...)
Returned(status, content) ==
    [outcome |-> "returned", status_code |-> status, content |-> content, flag |-> FALSE, exc |-> ""]
\* return None
ReturnedNone == [outcome |-> "returned", status_code |-> 0, content |-> NoContent, flag |-> FALSE, exc |-> ""]
\* return of a bool
ReturnedBool(b) == [outcome |-> "returned", status_code |-> 0, content |-> NoContent, flag |-> b, exc |-> ""]
\* an exception leaves the method
Raised(e) == [outcome |-> "raised", status_code |-> 0, content |-> NoContent, flag |-> FALSE, exc |-> e]

Info(msg) == [level |-> "INFO", msg |-> msg]
Warning(msg) == [level |-> "WARNING", msg |-> msg]
StatusLine(status) == "HTTP Status Code " \o ToString(status)

-----------------------------------------------------------------------------
(* UiPath._export_to_json and UiPath._handle_response *)

_export_to_json(fs, content, save_as) ==
    IF save_as # None
    THEN [files |-> [fs EXCEPT ![save_as[1]] = Some(content)],
          log |-> <<Info("Exports response to JSON file.")>>]
    ELSE [files |-> fs, log |-> <<>>]

Fail(e) == [exc |-> Some(e), value |-> NoContent]

\* _handle_response returning the records of a list in reverse order
_handle_response_Reversed(response, model, rtype) ==
    IF response.content.bytes # "json" THEN Fail("JSONDecodeError")
    ELSE LET doc == response.content.doc IN
         IF rtype = "scalar"
         THEN IF doc.t # "obj" THEN Fail("TypeError")
              ELSE LET validated == ValidateModel(model, doc.o)
                   IN IF validated.ok
                      THEN [exc |-> None, value |-> DictContent(validated.val)]
                      ELSE Fail("ValidationError")
         ELSE IF doc.t # "obj" THEN Fail("TypeError")
              ELSE IF "value" \notin DOMAIN doc.o THEN Fail("KeyError")
              ELSE LET content_raw == doc.o["value"] IN
                   IF content_raw.t # "list" THEN Fail("ValidationError")
                   ELSE IF \E i \in 1..Len(content_raw.e) :
                             \/ content_raw.e[i].t # "obj"
                             \/ ~ValidateModel(model, content_raw.e[i].o).ok
                        THEN Fail("ValidationError")
                        ELSE [exc |-> None,
                              value |-> ListContent([i \in 1..Len(content_raw.e) |->
                                            ValidateModel(model,
                                                content_raw.e[Len(content_raw.e) + 1 - i].o).val])]

_handle_response(response, model, rtype) ==
    IF response.content.bytes # "json" THEN Fail("JSONDecodeError")
    ELSE LET doc == response.content.doc IN
         IF rtype = "scalar"
         THEN IF doc.t # "obj" THEN Fail("TypeError")
              ELSE LET validated == ValidateModel(model, doc.o)
                   IN IF validated.ok
                      THEN [exc |-> None, value |-> DictContent(validated.val)]
                      ELSE Fail("ValidationError")
         ELSE IF doc.t # "obj" THEN Fail("TypeError")
              ELSE IF "value" \notin DOMAIN doc.o THEN Fail("KeyError")
              ELSE LET content_raw == doc.o["value"] IN
                   IF content_raw.t # "list" THEN Fail("ValidationError")
                   ELSE IF \E i \in 1..Len(content_raw.e) :
                             \/ content_raw.e[i].t # "obj"
                             \/ ~ValidateModel(model, content_raw.e[i].o).ok
                        THEN Fail("ValidationError")
                        ELSE [exc |-> None,
                              value |-> ListContent([i \in 1..Len(content_raw.e) |->
                                            ValidateModel(model, content_raw.e[i].o).val])]

-----------------------------------------------------------------------------
(* The inputs: arguments of the caller and answers of the server *)

Paths == {"out.json", "in.bin"}
Fids == {"10", "20"}
SavePaths == {None, Some("out.json")}
LocalPaths == {"in.bin", "out.json"}
Tokens == {"tokA", "tokB"}
Ids == {"7"}
Filters == {"State eq 'Running'", "Reference eq 'ref-1'"}
RobotIds == {None, Some(0), Some(5)}
Descriptions == {None, Some("d")}
Uris == {"https://blob.example/container/f?sig=1"}

SeqsUpTo(S, n) == UNION {[1..k -> S] : k \in 0..n}

AllFields == UNION {Range(m) : m \in Schemas}
Aliases == {f.alias : f \in AllFields}

\* a value every schema accepts for the alias a
AliasValue(a) ==
    LET types == {f.type : f \in {g \in AllFields : g.alias = a}} IN
    IF a = "RobotVersions" THEN JList(<<JObj([Version |-> JStr("23.4")])>>)
    ELSE IF "int" \in types THEN JInt("7")
    ELSE IF "bool" \in types THEN JBool("true")
    ELSE IF "datetime" \in types THEN JStr("2024-01-01T00:00:00Z")
    ELSE IF "list" \in types THEN JList(<<>>)
    ELSE JStr("x")

\* an object with every field of every schema
ItemFull == [a \in Aliases |-> AliasValue(a)]
\* the same without the fields that no schema requires
ItemRequired == [a \in {f.alias : f \in {g \in AllFields : g.required}} |-> AliasValue(a)]
\* the same without Id, which every schema requires
ItemNoId == [a \in Aliases \ {"Id"} |-> AliasValue(a)]

Items == {ItemFull, ItemRequired, ItemNoId}

EmptyObject == JsonBytes(JObj(<<>>))
EmptyArray == JsonBytes(JList(<<>>))

\* bodies of the collection endpoints, of the single-item endpoints, of the token
\* endpoint and of GetWriteUri: well-formed ones and malformed ones
ListBodies ==
    {JsonBytes(JObj([value |-> JList(s)])) : s \in SeqsUpTo({JObj(i) : i \in Items}, MaxItems)}
        \cup {EmptyObject, EmptyArray, NotJson}
ScalarBodies == {JsonBytes(JObj(i)) : i \in Items} \cup {EmptyArray, NotJson}
TokenBodies ==
    {JsonBytes(JObj([access_token |-> JStr(t)])) : t \in Tokens}
        \cup {JsonBytes(JObj([access_token |-> JNull])), EmptyObject, EmptyArray, NotJson}
UriBodies == {JsonBytes(JObj([Uri |-> JStr(u)])) : u \in Uris} \cup {EmptyObject, EmptyArray, NotJson}

\* the answers of the server: any status code; the body varies where the code reads it
Answers(readStatuses, bodies) ==
    {[status_code |-> s, content |-> b] : s \in readStatuses, b \in bodies}
        \cup {[status_code |-> s, content |-> NotJson] : s \in StatusCodes \ readStatuses}

-----------------------------------------------------------------------------
(* Requests *)

NoParams == <<>>
NoBody == [kind |-> "none"]
JsonBody(doc) == [kind |-> "json", doc |-> doc]
FormBody(doc) == [kind |-> "form", doc |-> doc]
FileBody(path) == [kind |-> "file", doc |-> path]

Request(verb, url, headers, params, body) ==
    [verb |-> verb, url |-> url, headers |-> headers, params |-> params, body |-> body]

Exchange(req, resp) == [request |-> req, response |-> resp]

\* Headers without the folder header
Headers_NoFolder(token, fid) ==
    ("Content-Type" :> "application/json") @@ ("Authorization" :> ("Bearer " \o Format(token)))

\* the headers the resource methods build
Headers(token, fid) ==
    ("Content-Type" :> "application/json")
        @@ ("Authorization" :> ("Bearer " \o Format(token)))
        @@ ("X-UIPATH-OrganizationUnitID" :> fid)

RECURSIVE Join(_, _)
Join(seq, sep) ==
    IF Len(seq) = 0 THEN ""
    ELSE IF Len(seq) = 1 THEN seq[1]
    ELSE seq[1] \o sep \o Join(Tail(seq), sep)

\* alias_list leaving out the optional fields
alias_list_RequiredOnly(model) ==
    LET aliased == SelectSeq(model, LAMBDA f : f.alias # "" /\ f.required)
    IN [i \in 1..Len(aliased) |-> aliased[i].alias]

\* [field.alias for field in Model.__fields__.values() if field.field_info.alias is not None]
alias_list(model) ==
    LET aliased == SelectSeq(model, LAMBDA f : f.alias # "")
    IN [i \in 1..Len(aliased) |-> aliased[i].alias]

Select(model) == ("$select" :> Join(alias_list(model), ","))
SelectFilter(model, filter) == Select(model) @@ ("$filter" :> filter)

-----------------------------------------------------------------------------
(* The shape shared by the methods *)

\* ReadCall without the test of the status code
ReadCall_NoStatusCheck(intro, req, resp, expected, model, rtype, save_as, fs) ==
    LET status == resp.status_code
        exported == _export_to_json(fs, resp.content, save_as)
        handled == _handle_response(resp, model, rtype)
    IN [reqs |-> <<Exchange(req, resp)>>,
        files |-> exported.files,
        log |-> intro \o <<Info(StatusLine(status)), Info("Request successful")>> \o exported.log,
        result |-> IF handled.exc = None
                   THEN Returned(status, handled.value)
                   ELSE Raised(handled.exc[1])]

\* ReadCall sending the request a second time after an unexpected status
ReadCall_Retry(intro, req, resp, expected, model, rtype, save_as, fs) ==
    LET status == resp.status_code
        log1 == intro \o <<Info(StatusLine(status))>>
    IN IF status = expected
       THEN LET exported == _export_to_json(fs, resp.content, save_as)
                handled == _handle_response(resp, model, rtype)
            IN [reqs |-> <<Exchange(req, resp)>>,
                files |-> exported.files,
                log |-> log1 \o <<Info("Request successful")>> \o exported.log,
                result |-> IF handled.exc = None
                           THEN Returned(status, handled.value)
                           ELSE Raised(handled.exc[1])]
       ELSE [reqs |-> <<Exchange(req, resp), Exchange(req, resp)>>,
             files |-> fs,
             log |-> log1 \o <<Info(StatusLine(status))>>,
             result |-> Returned(status, NoContent)]

\* ReadCall exporting the body before it tests the status code
ReadCall_ExportFirst(intro, req, resp, expected, model, rtype, save_as, fs) ==
    LET status == resp.status_code
        exported == _export_to_json(fs, resp.content, save_as)
        log1 == intro \o <<Info(StatusLine(status))>> \o exported.log
    IN IF status = expected
       THEN LET handled == _handle_response(resp, model, rtype)
            IN [reqs |-> <<Exchange(req, resp)>>,
                files |-> exported.files,
                log |-> log1 \o <<Info("Request successful")>>,
                result |-> IF handled.exc = None
                           THEN Returned(status, handled.value)
                           ELSE Raised(handled.exc[1])]
       ELSE [reqs |-> <<Exchange(req, resp)>>,
             files |-> exported.files,
             log |-> log1,
             result |-> Returned(status, NoContent)]

\* ReadCall deserializing the file at save_as, when there is one, instead of the response
ReadCall_Cached(intro, req, resp, expected, model, rtype, save_as, fs) ==
    LET status == resp.status_code
        log1 == intro \o <<Info(StatusLine(status))>>
        cached == IF save_as # None /\ fs[save_as[1]] # None
                  THEN [resp EXCEPT !.content = fs[save_as[1]][1]]
                  ELSE resp
    IN IF status = expected
       THEN LET exported == _export_to_json(fs, resp.content, save_as)
                handled == _handle_response(cached, model, rtype)
            IN [reqs |-> <<Exchange(req, resp)>>,
                files |-> exported.files,
                log |-> log1 \o <<Info("Request successful")>> \o exported.log,
                result |-> IF handled.exc = None
                           THEN Returned(status, handled.value)
                           ELSE Raised(handled.exc[1])]
       ELSE [reqs |-> <<Exchange(req, resp)>>,
             files |-> fs,
             log |-> log1,
             result |-> Returned(status, NoContent)]

\* request, log the status, and on the expected status export and deserialize
ReadCall(intro, req, resp, expected, model, rtype, save_as, fs) ==
    LET status == resp.status_code
        log1 == intro \o <<Info(StatusLine(status))>>
    IN IF status = expected
       THEN LET exported == _export_to_json(fs, resp.content, save_as)
                handled == _handle_response(resp, model, rtype)
            IN [reqs |-> <<Exchange(req, resp)>>,
                files |-> exported.files,
                log |-> log1 \o <<Info("Request successful")>> \o exported.log,
                result |-> IF handled.exc = None
                           THEN Returned(status, handled.value)
                           ELSE Raised(handled.exc[1])]
       ELSE [reqs |-> <<Exchange(req, resp)>>,
             files |-> fs,
             log |-> log1,
             result |-> Returned(status, NoContent)]

\* WriteCall logging the status code only when it is not the expected one
WriteCall_LogsFailuresOnly(intro, req, resp, expected, fs) ==
    LET status == resp.status_code
    IN [reqs |-> <<Exchange(req, resp)>>,
        files |-> fs,
        log |-> intro \o (IF status \in expected
                          THEN <<Info("Request successful")>>
                          ELSE <<Info(StatusLine(status))>>),
        result |-> Returned(status, NoContent)]

\* WriteCall returning a content on the expected status
WriteCall_WithContent(intro, req, resp, expected, fs) ==
    LET status == resp.status_code
    IN [reqs |-> <<Exchange(req, resp)>>,
        files |-> fs,
        log |-> intro \o <<Info(StatusLine(status))>>
                    \o (IF status \in expected THEN <<Info("Request successful")>> ELSE <<>>),
        result |-> Returned(status, IF status \in expected THEN ListContent(<<>>) ELSE NoContent)]

\* request, log the status, log success on the expected status; content stays None
WriteCall(intro, req, resp, expected, fs) ==
    LET status == resp.status_code
    IN [reqs |-> <<Exchange(req, resp)>>,
        files |-> fs,
        log |-> intro \o <<Info(StatusLine(status))>>
                    \o (IF status \in expected THEN <<Info("Request successful")>> ELSE <<>>),
        result |-> Returned(status, NoContent)]

\* Ready letting a method run on a client whose constructor has not yet called auth()
Ready_Unconstructed == phase \in {"init", "ready"} /\ call.op = "none"

\* a method can be called on a constructed client once the caller is done with the
\* previous invocation
Ready == phase = "ready" /\ call.op = "none"

\* Apply forgetting the stored token when the server answers 401
Apply_DropsToken(c, out) ==
    /\ call' = c
    /\ reqs' = out.reqs
    /\ files' = out.files
    /\ log' = out.log
    /\ result' = out.result
    /\ configuration' = IF \E i \in 1..Len(out.reqs) : out.reqs[i].response.status_code = 401
                        THEN [configuration EXCEPT !.token = None]
                        ELSE configuration
    /\ UNCHANGED <<phase, ctor_status>>

\* Apply with a check of the authentication state: without a stored token the method
\* raises before it sends anything
Apply_RequiresToken(c, out) ==
    /\ call' = c
    /\ reqs' = IF configuration.token = None THEN <<>> ELSE out.reqs
    /\ files' = IF configuration.token = None THEN files ELSE out.files
    /\ log' = IF configuration.token = None THEN <<>> ELSE out.log
    /\ result' = IF configuration.token = None THEN Raised("RuntimeError") ELSE out.result
    /\ UNCHANGED <<phase, configuration, ctor_status>>

\* the effect of a resource method on the state
Apply(c, out) ==
    /\ call' = c
    /\ reqs' = out.reqs
    /\ files' = out.files
    /\ log' = out.log
    /\ result' = out.result
    /\ UNCHANGED <<phase, configuration, ctor_status>>

-----------------------------------------------------------------------------
(* Construction and authentication *)

url_auth == "https://cloud.uipath.com/adidas/identity_/connect/token"

\* json.loads(response.content.decode("utf-8"))["access_token"]
access_token(content) ==
    IF content.bytes # "json" THEN [exc |-> Some("JSONDecodeError"), value |-> None]
    ELSE IF content.doc.t # "obj" THEN [exc |-> Some("TypeError"), value |-> None]
    ELSE IF "access_token" \notin DOMAIN content.doc.o THEN [exc |-> Some("KeyError"), value |-> None]
    ELSE LET tok == content.doc.o["access_token"]
         IN [exc |-> None, value |-> IF tok.t = "null" THEN None ELSE Some(tok.v)]

\* auth_impl forgetting the stored token when the status is not 200
auth_impl_ClearsOnFailure(cfg, resp) ==
    LET req == Request("POST", url_auth,
                       ("Connection" :> "keep-alive")
                           @@ ("Content-Type" :> "application/x-www-form-urlencoded"),
                       NoParams,
                       FormBody([grant_type |-> "client_credentials",
                                 client_id |-> cfg.client_id,
                                 client_secret |-> cfg.refresh_token,
                                 scope |-> cfg.scope]))
        base == [reqs |-> <<Exchange(req, resp)>>,
                 log |-> <<Info("Authenticating with UiPath Orchestrator using client credentials."),
                           Info(StatusLine(resp.status_code))>>,
                 configuration |-> cfg,
                 result |-> ReturnedNone]
    IN IF resp.status_code = HTTP_OK
       THEN LET tok == access_token(resp.content)
            IN IF tok.exc = None
               THEN [base EXCEPT !.configuration = [cfg EXCEPT !.token = tok.value]]
               ELSE [base EXCEPT !.result = Raised(tok.exc[1])]
       ELSE [base EXCEPT !.configuration = [cfg EXCEPT !.token = None]]

\* auth_impl dropping the stored token before it asks for a new one
auth_impl_ClearsFirst(cfg, resp) ==
    LET req == Request("POST", url_auth,
                       ("Connection" :> "keep-alive")
                           @@ ("Content-Type" :> "application/x-www-form-urlencoded"),
                       NoParams,
                       FormBody([grant_type |-> "client_credentials",
                                 client_id |-> cfg.client_id,
                                 client_secret |-> cfg.refresh_token,
                                 scope |-> cfg.scope]))
        base == [reqs |-> <<Exchange(req, resp)>>,
                 log |-> <<Info("Authenticating with UiPath Orchestrator using client credentials."),
                           Info(StatusLine(resp.status_code))>>,
                 configuration |-> [cfg EXCEPT !.token = None],
                 result |-> ReturnedNone]
    IN IF resp.status_code = HTTP_OK
       THEN LET tok == access_token(resp.content)
            IN IF tok.exc = None
               THEN [base EXCEPT !.configuration = [cfg EXCEPT !.token = tok.value]]
               ELSE [base EXCEPT !.result = Raised(tok.exc[1])]
       ELSE base

\* UiPath.auth: one POST to the token endpoint; the token is stored on status 200
auth_impl(cfg, resp) ==
    LET req == Request("POST", url_auth,
                       ("Connection" :> "keep-alive")
                           @@ ("Content-Type" :> "application/x-www-form-urlencoded"),
                       NoParams,
                       FormBody([grant_type |-> "client_credentials",
                                 client_id |-> cfg.client_id,
                                 client_secret |-> cfg.refresh_token,
                                 scope |-> cfg.scope]))
        base == [reqs |-> <<Exchange(req, resp)>>,
                 log |-> <<Info("Authenticating with UiPath Orchestrator using client credentials."),
                           Info(StatusLine(resp.status_code))>>,
                 configuration |-> cfg,
                 result |-> ReturnedNone]
    IN IF resp.status_code = HTTP_OK
       THEN LET tok == access_token(resp.content)
            IN IF tok.exc = None
               THEN [base EXCEPT !.configuration = [cfg EXCEPT !.token = tok.value]]
               ELSE [base EXCEPT !.result = Raised(tok.exc[1])]
       ELSE base

\* UiPath.__init__ from "Authenticate" on: the constructor ends by calling auth()
__init__ ==
    /\ phase = "init"
    /\ \E resp \in Answers({HTTP_OK}, TokenBodies) :
          LET out == auth_impl(configuration, resp) IN
          /\ phase' = IF out.result.outcome = "raised" THEN "failed" ELSE "ready"
          /\ configuration' = out.configuration
          /\ call' = [op |-> "__init__"]
          /\ reqs' = out.reqs
          /\ log' = out.log
          /\ result' = out.result
          /\ ctor_status' = resp.status_code
          /\ UNCHANGED files

\* a later call of the public auth()
auth ==
    /\ Ready
    /\ \E resp \in Answers({HTTP_OK}, TokenBodies) :
          LET out == auth_impl(configuration, resp) IN
          /\ configuration' = out.configuration
          /\ call' = [op |-> "auth"]
          /\ reqs' = out.reqs
          /\ log' = out.log
          /\ result' = out.result
          /\ UNCHANGED <<phase, files, ctor_status>>

\* is_auth answering whether the client was constructed
is_auth_Constructed ==
    /\ Ready
    /\ call' = [op |-> "is_auth"]
    /\ reqs' = <<>>
    /\ log' = <<Info("Checking if authentication is being established with UiPath Orchestrator.")>>
    /\ result' = ReturnedBool(phase = "ready")
    /\ UNCHANGED <<phase, configuration, files, ctor_status>>

is_auth ==
    /\ Ready
    /\ call' = [op |-> "is_auth"]
    /\ reqs' = <<>>
    /\ log' = <<Info("Checking if authentication is being established with UiPath Orchestrator.")>>
    /\ result' = ReturnedBool(IF configuration.token = None THEN FALSE ELSE TRUE)
    /\ UNCHANGED <<phase, configuration, files, ctor_status>>

-----------------------------------------------------------------------------
(* The resource methods *)

\* list_roles builds its headers without the folder header
HeadersNoFolder(token) ==
    ("Content-Type" :> "application/json") @@ ("Authorization" :> ("Bearer " \o Format(token)))

list_assets ==
    /\ Ready
    /\ \E fid \in Fids, save_as \in SavePaths, resp \in Answers({HTTP_OK}, ListBodies) :
          Apply([op |-> "list_assets", fid |-> fid, save_as |-> save_as],
                ReadCall(<<Info("Retrieving all assets.")>>,
                         Request("GET", configuration.url_base \o "/odata/Assets", Headers(configuration.token, fid),
                                 Select(ListAssets), NoBody),
                         resp, HTTP_OK, ListAssets, "list", save_as, files))

list_buckets ==
    /\ Ready
    /\ \E fid \in Fids, save_as \in SavePaths, resp \in Answers({HTTP_OK}, ListBodies) :
          Apply([op |-> "list_buckets", fid |-> fid, save_as |-> save_as],
                ReadCall(<<Info("Retrieving the list of all storage buckets.")>>,
                         Request("GET", configuration.url_base \o "/odata/Buckets", Headers(configuration.token, fid),
                                 Select(ListBuckets), NoBody),
                         resp, HTTP_OK, ListBuckets, "list", save_as, files))

create_bucket ==
    /\ Ready
    /\ \E fid \in Fids, description \in Descriptions, resp \in Answers({HTTP_OK, HTTP_CREATED}, {EmptyObject}) :
          LET name == "bucket"
              guid == "0f8fad5b"
              body == [Name |-> name,
                       Description |-> IF description = None THEN "" ELSE description[1],
                       Identifier |-> guid,
                       StorageProvider |-> None,
                       StorageParameters |-> None,
                       StorageContainer |-> None,
                       CredentialStoreId |-> None,
                       ExternalName |-> None,
                       Password |-> None,
                       FoldersCount |-> 0,
                       Id |-> 0]
          IN Apply([op |-> "create_bucket", fid |-> fid, name |-> name, guid |-> guid,
                    description |-> description],
                   WriteCall(<<Info("Creating a new storage bucket."), Info(name)>>,
                             Request("POST", configuration.url_base \o "/odata/Buckets",
                                     Headers(configuration.token, fid), NoParams, JsonBody(body)),
                             resp, {HTTP_CREATED}, files))

delete_bucket ==
    /\ Ready
    /\ \E fid \in Fids, id \in Ids, resp \in Answers({HTTP_OK, HTTP_NO_CONTENT}, {EmptyObject}) :
          Apply([op |-> "delete_bucket", fid |-> fid, id |-> id],
                WriteCall(<<Info("Deleting the specified storage bucket."), Info(id)>>,
                          Request("DELETE", configuration.url_base \o "/odata/Buckets(" \o id \o ")",
                                  Headers(configuration.token, fid), NoParams, NoBody),
                          resp, {HTTP_NO_CONTENT}, files))

\* response.json()["Uri"]
write_uri(content) ==
    IF content.bytes # "json" THEN [exc |-> Some("JSONDecodeError"), value |-> ""]
    ELSE IF content.doc.t # "obj" THEN [exc |-> Some("TypeError"), value |-> ""]
    ELSE IF "Uri" \notin DOMAIN content.doc.o THEN [exc |-> Some("KeyError"), value |-> ""]
    ELSE [exc |-> None, value |-> content.doc.o["Uri"].v]

\* upload_impl asking for the write URI a second time after an unexpected status
upload_impl_Retry(cfg, fs, fid, id, localpath, remotepath, get, put) ==
    LET reqGet == Request("GET",
                          cfg.url_base \o "/odata/Buckets(" \o id
                              \o ")/UiPath.Server.Configuration.OData.GetWriteUri?path="
                              \o remotepath \o "&expiryInMinutes=0",
                          Headers(cfg.token, fid), NoParams, NoBody)
        log1 == <<Info("Uploading file to the specified bucket."), Info(id), Info(localpath),
                  Info(remotepath), Info(StatusLine(get.status_code))>>
        uri == write_uri(get.content)
        reqPut == Request("PUT", uri.value, ("x-ms-blob-type" :> "BlockBlob"), NoParams,
                          FileBody(localpath))
    IN IF get.status_code = HTTP_OK /\ uri.exc = None /\ fs[localpath] # None
       THEN [reqs |-> <<Exchange(reqGet, get), Exchange(reqPut, put)>>,
             files |-> fs,
             log |-> log1,
             result |-> Returned(put.status_code, NoContent)]
       ELSE [reqs |-> <<Exchange(reqGet, get), Exchange(reqGet, get)>>, files |-> fs, log |-> log1,
             result |-> Returned(get.status_code, NoContent)]

\* upload_impl returning the status of the GET whatever the PUT was answered
upload_impl_GetStatus(cfg, fs, fid, id, localpath, remotepath, get, put) ==
    LET reqGet == Request("GET",
                          cfg.url_base \o "/odata/Buckets(" \o id
                              \o ")/UiPath.Server.Configuration.OData.GetWriteUri?path="
                              \o remotepath \o "&expiryInMinutes=0",
                          Headers(cfg.token, fid), NoParams, NoBody)
        log1 == <<Info("Uploading file to the specified bucket."), Info(id), Info(localpath),
                  Info(remotepath), Info(StatusLine(get.status_code))>>
        uri == write_uri(get.content)
        reqPut == Request("PUT", uri.value, ("x-ms-blob-type" :> "BlockBlob"), NoParams,
                          FileBody(localpath))
    IN IF get.status_code = HTTP_OK
       THEN IF uri.exc # None
            THEN [reqs |-> <<Exchange(reqGet, get)>>, files |-> fs, log |-> log1,
                  result |-> Raised(uri.exc[1])]
            ELSE IF fs[localpath] = None
            THEN [reqs |-> <<Exchange(reqGet, get)>>, files |-> fs, log |-> log1,
                  result |-> Raised("FileNotFoundError")]
            ELSE [reqs |-> <<Exchange(reqGet, get), Exchange(reqPut, put)>>,
                  files |-> fs,
                  log |-> log1 \o (IF put.status_code = HTTP_OK
                                   THEN <<Info("File uploaded successfully")>>
                                   ELSE <<>>),
                  result |-> Returned(get.status_code, NoContent)]
       ELSE [reqs |-> <<Exchange(reqGet, get)>>, files |-> fs, log |-> log1,
             result |-> Returned(get.status_code, NoContent)]

\* GET a write URI; on 200 open the local file and PUT it to that URI
upload_impl(cfg, fs, fid, id, localpath, remotepath, get, put) ==
    LET reqGet == Request("GET",
                          cfg.url_base \o "/odata/Buckets(" \o id
                              \o ")/UiPath.Server.Configuration.OData.GetWriteUri?path="
                              \o remotepath \o "&expiryInMinutes=0",
                          Headers(cfg.token, fid), NoParams, NoBody)
        log1 == <<Info("Uploading file to the specified bucket."), Info(id), Info(localpath),
                  Info(remotepath), Info(StatusLine(get.status_code))>>
        uri == write_uri(get.content)
        reqPut == Request("PUT", uri.value, ("x-ms-blob-type" :> "BlockBlob"), NoParams,
                          FileBody(localpath))
    IN IF get.status_code = HTTP_OK
       THEN IF uri.exc # None
            THEN [reqs |-> <<Exchange(reqGet, get)>>, files |-> fs, log |-> log1,
                  result |-> Raised(uri.exc[1])]
            ELSE IF fs[localpath] = None
            THEN [reqs |-> <<Exchange(reqGet, get)>>, files |-> fs, log |-> log1,
                  result |-> Raised("FileNotFoundError")]
            ELSE [reqs |-> <<Exchange(reqGet, get), Exchange(reqPut, put)>>,
                  files |-> fs,
                  log |-> log1 \o (IF put.status_code = HTTP_OK
                                   THEN <<Info("File uploaded successfully")>>
                                   ELSE <<>>),
                  result |-> Returned(put.status_code, NoContent)]
       ELSE [reqs |-> <<Exchange(reqGet, get)>>, files |-> fs, log |-> log1,
             result |-> Returned(get.status_code, NoContent)]

upload_bucket_file ==
    /\ Ready
    /\ \E fid \in Fids, id \in Ids, localpath \in LocalPaths,
          get \in Answers({HTTP_OK}, UriBodies), put \in Answers({HTTP_OK}, {EmptyObject}) :
          LET remotepath == "folder/f.bin" IN
          Apply([op |-> "upload_bucket_file", fid |-> fid, id |-> id, localpath |-> localpath,
                 remotepath |-> remotepath],
                upload_impl(configuration, files, fid, id, localpath, remotepath, get, put))

delete_bucket_file ==
    /\ Ready
    /\ \E fid \in Fids, id \in Ids, resp \in Answers({HTTP_OK, HTTP_NO_CONTENT}, {EmptyObject}) :
          LET filename == "f.bin" IN
          Apply([op |-> "delete_bucket_file", fid |-> fid, id |-> id, filename |-> filename],
                WriteCall(<<Info("Deleting the specified file from the storage bucket."), Info(filename)>>,
                          Request("DELETE",
                                  configuration.url_base \o "/odata/Buckets(" \o id
                                      \o ")/UiPath.Server.Configuration.OData.DeleteFile?path=" \o filename,
                                  Headers(configuration.token, fid), NoParams, NoBody),
                          resp, {HTTP_NO_CONTENT}, files))

list_calendars ==
    /\ Ready
    /\ \E fid \in Fids, save_as \in SavePaths, resp \in Answers({HTTP_OK}, ListBodies) :
          Apply([op |-> "list_calendars", fid |-> fid, save_as |-> save_as],
                ReadCall(<<Info("Retrieving all calendars.")>>,
                         Request("GET", configuration.url_base \o "/odata/Calendars", Headers(configuration.token, fid),
                                 Select(ListCalendars), NoBody),
                         resp, HTTP_OK, ListCalendars, "list", save_as, files))

list_environments ==
    /\ Ready
    /\ \E fid \in Fids, save_as \in SavePaths, resp \in Answers({HTTP_OK}, ListBodies) :
          Apply([op |-> "list_environments", fid |-> fid, save_as |-> save_as],
                ReadCall(<<Info("Retrieving all environments.")>>,
                         Request("GET", configuration.url_base \o "/odata/Environments", Headers(configuration.token, fid),
                                 Select(ListEnvironments), NoBody),
                         resp, HTTP_OK, ListEnvironments, "list", save_as, files))

list_jobs ==
    /\ Ready
    /\ \E fid \in Fids, filter \in Filters, save_as \in SavePaths, resp \in Answers({HTTP_OK}, ListBodies) :
          Apply([op |-> "list_jobs", fid |-> fid, filter |-> filter, save_as |-> save_as],
                ReadCall(<<Info("Retrieving jobs using the provided filter criteria."), Info(filter)>>,
                         Request("GET", configuration.url_base \o "/odata/Jobs", Headers(configuration.token, fid),
                                 SelectFilter(ListJobs, filter), NoBody),
                         resp, HTTP_OK, ListJobs, "list", save_as, files))

\* start_info testing robot_id for truth ("if robot_id:"), so that robot 0 counts as none
start_info_Truthy(process_key, robot_id) ==
    IF robot_id # None /\ robot_id[1] # 0
    THEN [startInfo |-> [ReleaseKey |-> process_key,
                         Strategy |-> "Specific",
                         RobotIds |-> <<robot_id[1]>>,
                         JobsCount |-> 0,
                         Source |-> "Manual"]]
    ELSE [startInfo |-> [ReleaseKey |-> process_key,
                         Strategy |-> "JobsCount",
                         JobsCount |-> 1,
                         Source |-> "Manual"]]

\* the body of StartJobs
start_info(process_key, robot_id) ==
    IF robot_id # None
    THEN [startInfo |-> [ReleaseKey |-> process_key,
                         Strategy |-> "Specific",
                         RobotIds |-> <<robot_id[1]>>,
                         JobsCount |-> 0,
                         Source |-> "Manual"]]
    ELSE [startInfo |-> [ReleaseKey |-> process_key,
                         Strategy |-> "JobsCount",
                         JobsCount |-> 1,
                         Source |-> "Manual"]]

start_job ==
    /\ Ready
    /\ \E fid \in Fids, robot_id \in RobotIds, resp \in Answers({HTTP_OK, HTTP_CREATED}, {EmptyObject}) :
          LET process_key == "release-key" IN
          Apply([op |-> "start_job", fid |-> fid, process_key |-> process_key, robot_id |-> robot_id],
                WriteCall(<<Info("Initiating the process of starting a job."), Info(process_key),
                            Info(IF robot_id = None THEN "None" ELSE ToString(robot_id[1]))>>,
                          Request("POST",
                                  configuration.url_base
                                      \o "/odata/Jobs/UiPath.Server.Configuration.OData.StartJobs",
                                  Headers(configuration.token, fid), NoParams,
                                  JsonBody(start_info(process_key, robot_id))),
                          resp, {}, files))

stop_job ==
    /\ Ready
    /\ \E fid \in Fids, id \in Ids, resp \in Answers({HTTP_OK}, {EmptyObject}) :
          Apply([op |-> "stop_job", fid |-> fid, id |-> id],
                WriteCall(<<Info("Stopping the specified job."), Info(id)>>,
                          Request("POST",
                                  configuration.url_base \o "/odata/Jobs(" \o id
                                      \o ")/UiPath.Server.Configuration.OData.StopJob",
                                  Headers(configuration.token, fid), NoParams,
                                  JsonBody([strategy |-> "2"])),
                          resp, {HTTP_OK}, files))

list_machines ==
    /\ Ready
    /\ \E fid \in Fids, save_as \in SavePaths, resp \in Answers({HTTP_OK}, ListBodies) :
          Apply([op |-> "list_machines", fid |-> fid, save_as |-> save_as],
                ReadCall(<<Info("Retrieving a list of all machines.")>>,
                         Request("GET", configuration.url_base \o "/odata/Machines", Headers(configuration.token, fid),
                                 Select(ListMachines), NoBody),
                         resp, HTTP_OK, ListMachines, "list", save_as, files))

list_processes ==
    /\ Ready
    /\ \E fid \in Fids, save_as \in SavePaths, resp \in Answers({HTTP_OK}, ListBodies) :
          Apply([op |-> "list_processes", fid |-> fid, save_as |-> save_as],
                ReadCall(<<Info("Retrieving a comprehensive list of all processes.")>>,
                         Request("GET", configuration.url_base \o "/odata/Processes", Headers(configuration.token, fid),
                                 Select(ListProcesses), NoBody),
                         resp, HTTP_OK, ListProcesses, "list", save_as, files))

list_queues ==
    /\ Ready
    /\ \E fid \in Fids, save_as \in SavePaths, resp \in Answers({HTTP_OK}, ListBodies) :
          Apply([op |-> "list_queues", fid |-> fid, save_as |-> save_as],
                ReadCall(<<Info("Retrieving a comprehensive list of all queues.")>>,
                         Request("GET", configuration.url_base \o "/odata/QueueDefinitions", Headers(configuration.token, fid),
                                 Select(ListQueues), NoBody),
                         resp, HTTP_OK, ListQueues, "list", save_as, files))

list_queue_items ==
    /\ Ready
    /\ \E fid \in Fids, filter \in Filters, save_as \in SavePaths, resp \in Answers({HTTP_OK}, ListBodies) :
          Apply([op |-> "list_queue_items", fid |-> fid, filter |-> filter, save_as |-> save_as],
                ReadCall(<<Info("Retrieving a list of queue items using the provided filter criteria."), Info(filter)>>,
                         Request("GET", configuration.url_base \o "/odata/QueueItems", Headers(configuration.token, fid),
                                 SelectFilter(ListQueueItems, filter), NoBody),
                         resp, HTTP_OK, ListQueueItems, "list", save_as, files))

get_queue_item ==
    /\ Ready
    /\ \E fid \in Fids, id \in Ids, save_as \in SavePaths, resp \in Answers({HTTP_OK}, ScalarBodies) :
          Apply([op |-> "get_queue_item", fid |-> fid, id |-> id, save_as |-> save_as],
                ReadCall(<<Info("Retrieving details for the specified queue item from the queue."), Info(id)>>,
                         Request("GET", configuration.url_base \o "/odata/QueueItems(" \o id \o ")",
                                 Headers(configuration.token, fid), Select(GetQueueItem), NoBody),
                         resp, HTTP_OK, GetQueueItem, "scalar", save_as, files))

\* add_queue_item also warns on 409 before it tests for 201
add_queue_item_impl(cfg, fs, fid, queue, data, reference, priority, save_as, resp) ==
    LET body == [itemData |-> [Name |-> queue,
                               Priority |-> priority,
                               DeferDate |-> None,
                               DueDate |-> None,
                               Reference |-> reference,
                               SpecificContent |-> data]]
        out == ReadCall(<<Info("Adding an item to the queue."), Info(queue), Info(reference)>>,
                        Request("POST", cfg.url_base \o "/odata/Queues/UiPathODataSvc.AddQueueItem",
                                Headers(cfg.token, fid), Select(AddQueueItem), JsonBody(body)),
                        resp, HTTP_CREATED, AddQueueItem, "scalar", save_as, fs)
    IN IF resp.status_code = HTTP_CONFLICT
       THEN [out EXCEPT !.log = @ \o <<Warning("Item with reference " \o reference
                                                   \o " already in the queue")>>]
       ELSE out

add_queue_item ==
    /\ Ready
    /\ \E fid \in Fids, save_as \in SavePaths, resp \in Answers({HTTP_OK, HTTP_CREATED}, ScalarBodies) :
          LET queue == "Invoices"
              data == [PRCode |-> "PR1234"]
              reference == "ref-1"
              priority == "Normal"
          IN Apply([op |-> "add_queue_item", fid |-> fid, queue |-> queue, data |-> data,
                    reference |-> reference, priority |-> priority, save_as |-> save_as],
                   add_queue_item_impl(configuration, files, fid, queue, data, reference, priority,
                                       save_as, resp))

update_queue_item ==
    /\ Ready
    /\ \E fid \in Fids, id \in Ids, resp \in Answers({HTTP_OK}, {EmptyObject}) :
          LET queue == "Invoices"
              data == [PRCode |-> "PR1234"]
              body == [Name |-> queue,
                       Priority |-> "High",
                       SpecificContent |-> data,
                       DeferDate |-> None,
                       DueDate |-> None,
                       RiskSlaDate |-> None]
          IN Apply([op |-> "update_queue_item", fid |-> fid, queue |-> queue, id |-> id, data |-> data],
                   WriteCall(<<Info("Updating a queue item in the queue."), Info(queue)>>,
                             Request("PUT", configuration.url_base \o "/odata/QueueItems(" \o id \o ")",
                                     Headers(configuration.token, fid), NoParams, JsonBody(body)),
                             resp, {HTTP_OK}, files))

delete_queue_item ==
    /\ Ready
    /\ \E fid \in Fids, id \in Ids, resp \in Answers({HTTP_OK, HTTP_NO_CONTENT}, {EmptyObject}) :
          Apply([op |-> "delete_queue_item", fid |-> fid, id |-> id],
                WriteCall(<<Info("Deleting the specified queue item from the queue."), Info(id)>>,
                          Request("DELETE", configuration.url_base \o "/odata/QueueItems(" \o id \o ")",
                                  Headers(configuration.token, fid), NoParams, NoBody),
                          resp, {HTTP_NO_CONTENT}, files))

list_releases ==
    /\ Ready
    /\ \E fid \in Fids, save_as \in SavePaths, resp \in Answers({HTTP_OK}, ListBodies) :
          Apply([op |-> "list_releases", fid |-> fid, save_as |-> save_as],
                ReadCall(<<Info("Retrieving the list of all process releases.")>>,
                         Request("GET", configuration.url_base \o "/odata/Releases", Headers(configuration.token, fid),
                                 Select(ListReleases), NoBody),
                         resp, HTTP_OK, ListReleases, "list", save_as, files))

list_robots ==
    /\ Ready
    /\ \E fid \in Fids, save_as \in SavePaths, resp \in Answers({HTTP_OK}, ListBodies) :
          Apply([op |-> "list_robots", fid |-> fid, save_as |-> save_as],
                ReadCall(<<Info("Retrieving a comprehensive list of all robots.")>>,
                         Request("GET", configuration.url_base \o "/odata/Robots", Headers(configuration.token, fid),
                                 Select(ListRobots), NoBody),
                         resp, HTTP_OK, ListRobots, "list", save_as, files))

list_robot_logs ==
    /\ Ready
    /\ \E fid \in Fids, filter \in Filters, save_as \in SavePaths, resp \in Answers({HTTP_OK}, ListBodies) :
          Apply([op |-> "list_robot_logs", fid |-> fid, filter |-> filter, save_as |-> save_as],
                ReadCall(<<Info("Retrieving robot logs based on the provided filter criteria.")>>,
                         Request("GET", configuration.url_base \o "/odata/RobotLogs", Headers(configuration.token, fid),
                                 SelectFilter(ListRobotLogs, filter), NoBody),
                         resp, HTTP_OK, ListRobotLogs, "list", save_as, files))

list_roles ==
    /\ Ready
    /\ \E save_as \in SavePaths, resp \in Answers({HTTP_OK}, ListBodies) :
          Apply([op |-> "list_roles", save_as |-> save_as],
                ReadCall(<<Info("Retrieving a comprehensive list of all roles.")>>,
                         Request("GET", configuration.url_base \o "/odata/Roles", HeadersNoFolder(configuration.token),
                                 Select(ListRoles), NoBody),
                         resp, HTTP_OK, ListRoles, "list", save_as, files))

list_schedules ==
    /\ Ready
    /\ \E fid \in Fids, save_as \in SavePaths, resp \in Answers({HTTP_OK}, ListBodies) :
          Apply([op |-> "list_schedules", fid |-> fid, save_as |-> save_as],
                ReadCall(<<Info("Retrieving a comprehensive list of all schedules.")>>,
                         Request("GET", configuration.url_base \o "/odata/ProcessSchedules", Headers(configuration.token, fid),
                                 Select(ListSchedules), NoBody),
                         resp, HTTP_OK, ListSchedules, "list", save_as, files))

list_sessions ==
    /\ Ready
    /\ \E fid \in Fids, save_as \in SavePaths, resp \in Answers({HTTP_OK}, ListBodies) :
          Apply([op |-> "list_sessions", fid |-> fid, save_as |-> save_as],
                ReadCall(<<Info("Retrieving a comprehensive list of all active sessions.")>>,
                         Request("GET", configuration.url_base \o "/odata/Sessions", Headers(configuration.token, fid),
                                 Select(ListSessions), NoBody),
                         resp, HTTP_OK, ListSessions, "list", save_as, files))

-----------------------------------------------------------------------------
(* The caller *)

\* the caller is done with what the invocation returned or raised: the record of the
\* invocation is dropped, the client and the files stay as they are
discard ==
    /\ call.op # "none"
    /\ call' = [op |-> "none"]
    /\ reqs' = <<>>
    /\ result' = NoResult
    /\ log' = <<>>
    /\ UNCHANGED <<phase, configuration, files, ctor_status>>

-----------------------------------------------------------------------------
(* The specification *)

Init ==
    /\ phase = "init"
    /\ configuration = [url_base |-> "https://cloud.uipath.com/org/tenant/orchestrator_",
                        client_id |-> "client-id",
                        refresh_token |-> "client-secret",
                        token |-> None,
                        scope |-> "OR.Default"]
    /\ files = [p \in Paths |-> IF p = "in.bin" THEN Some(NotJson) ELSE None]
    /\ call = [op |-> "none"]
    /\ reqs = <<>>
    /\ result = NoResult
    /\ log = <<>>
    /\ ctor_status = 0

Next ==
    \/ __init__
    \/ auth
    \/ is_auth
    \/ list_assets
    \/ list_buckets
    \/ create_bucket
    \/ delete_bucket
    \/ upload_bucket_file
    \/ delete_bucket_file
    \/ list_calendars
    \/ list_environments
    \/ list_jobs
    \/ start_job
    \/ stop_job
    \/ list_machines
    \/ list_processes
    \/ list_queues
    \/ list_queue_items
    \/ get_queue_item
    \/ add_queue_item
    \/ update_queue_item
    \/ delete_queue_item
    \/ list_releases
    \/ list_robots
    \/ list_robot_logs
    \/ list_roles
    \/ list_schedules
    \/ list_sessions
    \/ discard

Spec == Init /\ [][Next]_vars

-----------------------------------------------------------------------------
(* The terms the properties are stated in *)

ListOps == {"list_assets", "list_buckets", "list_calendars", "list_environments", "list_jobs",
            "list_machines", "list_processes", "list_queues", "list_queue_items", "list_releases",
            "list_robots", "list_robot_logs", "list_roles", "list_schedules", "list_sessions"}
ReadOps == ListOps \cup {"get_queue_item", "add_queue_item"}
WriteOps == {"create_bucket", "delete_bucket", "upload_bucket_file", "delete_bucket_file",
             "start_job", "stop_job", "update_queue_item", "delete_queue_item"}
ResourceOps == ReadOps \cup WriteOps
AuthOps == {"__init__", "auth"}

\* the status codes a method tests its responses for (start_job tests for none)
ExpectedCodes(op) ==
    CASE op \in {"add_queue_item", "create_bucket"} -> {HTTP_CREATED}
      [] op \in {"delete_bucket", "delete_bucket_file", "delete_queue_item"} -> {HTTP_NO_CONTENT}
      [] op = "start_job" -> {}
      [] OTHER -> {HTTP_OK}

\* the schema a method deserializes into
SchemaOf(op) ==
    CASE op = "list_assets" -> ListAssets
      [] op = "list_buckets" -> ListBuckets
      [] op = "list_calendars" -> ListCalendars
      [] op = "list_environments" -> ListEnvironments
      [] op = "list_jobs" -> ListJobs
      [] op = "list_machines" -> ListMachines
      [] op = "list_processes" -> ListProcesses
      [] op = "list_queues" -> ListQueues
      [] op = "list_queue_items" -> ListQueueItems
      [] op = "get_queue_item" -> GetQueueItem
      [] op = "add_queue_item" -> AddQueueItem
      [] op = "list_releases" -> ListReleases
      [] op = "list_robots" -> ListRobots
      [] op = "list_robot_logs" -> ListRobotLogs
      [] op = "list_roles" -> ListRoles
      [] op = "list_schedules" -> ListSchedules
      [] op = "list_sessions" -> ListSessions

StatusOf(i) == reqs[i].response.status_code
BodyOf(i) == reqs[i].response.content
LastStatus == StatusOf(Len(reqs))

IsJsonObject(content) == content.bytes = "json" /\ content.doc.t = "obj"
HasKey(content, k) == IsJsonObject(content) /\ k \in DOMAIN content.doc.o

\* the JSON objects a body offers to the schema of the method: the elements of its
\* "value" array for a list_* method, the body itself for the other two
Offered(op, content) ==
    IF op \in ListOps THEN content.doc.o["value"].e ELSE <<content.doc>>

\* a body is schema-valid for a method
SchemaValid(op, content) ==
    /\ IsJsonObject(content)
    /\ op \in ListOps => HasKey(content, "value") /\ content.doc.o["value"].t = "list"
    /\ \A i \in 1..Len(Offered(op, content)) :
          /\ Offered(op, content)[i].t = "obj"
          /\ ValidateModel(SchemaOf(op), Offered(op, content)[i].o).ok

\* a record of the content holds, under the local names, what the object holds under the aliases
RecordMatches(model, o, rec) ==
    /\ DOMAIN rec = {f.name : f \in Range(model)}
    /\ \A f \in Range(model) :
          IF f.alias \notin DOMAIN o \/ o[f.alias].t = "null" THEN rec[f.name] = PyNone
          ELSE IF f.pre # "none" THEN rec[f.name].t \in {"None", f.type}
          ELSE IF f.type = "list" THEN rec[f.name].t = "list" /\ rec[f.name].e = o[f.alias].e
          ELSE rec[f.name].t = f.type /\ rec[f.name].v = o[f.alias].v

-----------------------------------------------------------------------------
(* The properties *)

\* C1: a resource method that returns, returns the status code of the last response it
\* received, with content None whenever that status is not the one the method tests for;
\* and an exception leaves a method only on the path of its expected status, never
\* because of another status code.
C1_StatusAndContent ==
    call.op \in ResourceOps =>
        /\ result.outcome \in {"returned", "raised"}
        /\ result.outcome = "returned" =>
              /\ result.status_code = LastStatus
              /\ LastStatus \notin ExpectedCodes(call.op) => result.content = NoContent
        /\ result.outcome = "raised" => StatusOf(1) \in ExpectedCodes(call.op)

\* add_queue_item was answered 409 and returned 409 with no content
C1_Witness ==
    /\ call.op = "add_queue_item"
    /\ StatusOf(1) = HTTP_CONFLICT
    /\ result = Returned(HTTP_CONFLICT, NoContent)

\* C2, as stated: every resource method issues exactly one HTTP request per invocation.
C2_ExactlyOneRequest ==
    call.op \in ResourceOps => Len(reqs) = 1

\* C2, amended: every resource method other than upload_bucket_file issues exactly one
\* HTTP request per invocation; upload_bucket_file issues the GET for the write URI and
\* a second request, the PUT, exactly when the GET was answered 200 with a body holding
\* "Uri" and the local file could be opened.
C2_RequestCount ==
    /\ call.op \in ResourceOps \ {"upload_bucket_file"} => Len(reqs) = 1
    /\ call.op = "upload_bucket_file" =>
          /\ Len(reqs) \in {1, 2}
          /\ reqs[1].request.verb = "GET"
          /\ Len(reqs) = 2 <=>
                /\ StatusOf(1) = HTTP_OK
                /\ HasKey(BodyOf(1), "Uri")
                /\ files[call.localpath] # None
          /\ Len(reqs) = 2 => reqs[2].request.verb = "PUT"

\* upload_bucket_file sent its two requests
C2_Witness ==
    /\ call.op = "upload_bucket_file"
    /\ Len(reqs) = 2
    /\ result.outcome = "returned"

\* the Authorization header made of the stored token
Bearer == IF configuration.token = None THEN "Bearer None" ELSE "Bearer " \o configuration.token[1]

CarriesToken(req) ==
    "Authorization" \in DOMAIN req.headers /\ req.headers["Authorization"] = Bearer
CarriesFolder(req) ==
    /\ "X-UIPATH-OrganizationUnitID" \in DOMAIN req.headers
    /\ "fid" \in DOMAIN call
    /\ req.headers["X-UIPATH-OrganizationUnitID"] = call.fid

\* C3, as stated: every request of a resource method carries the bearer token and the
\* folder header with the caller's folder id.
C3_EveryRequestCarriesBoth ==
    call.op \in ResourceOps =>
        \A i \in 1..Len(reqs) : CarriesToken(reqs[i].request) /\ CarriesFolder(reqs[i].request)

\* C3, amended: every request a resource method sends to the Orchestrator carries
\* 'Bearer <stored token>', and the folder header with the caller's folder id unless the
\* method is list_roles, which takes no folder id and sends no folder header; the PUT of
\* upload_bucket_file, sent to the write URI, carries neither, only x-ms-blob-type.
C3_Headers ==
    call.op \in ResourceOps =>
        \A i \in 1..Len(reqs) :
            IF call.op = "upload_bucket_file" /\ i = 2
            THEN DOMAIN reqs[i].request.headers = {"x-ms-blob-type"}
            ELSE /\ CarriesToken(reqs[i].request)
                 /\ IF call.op = "list_roles"
                    THEN "X-UIPATH-OrganizationUnitID" \notin DOMAIN reqs[i].request.headers
                    ELSE CarriesFolder(reqs[i].request)

\* a folder-scoped method sent the stored token and the caller's folder id
C3_Witness ==
    /\ call.op = "list_jobs"
    /\ call.fid = "20"
    /\ configuration.token = Some("tokB")
    /\ reqs[1].request.headers["Authorization"] = "Bearer tokB"
    /\ reqs[1].request.headers["X-UIPATH-OrganizationUnitID"] = "20"

IsTokenRequest(x) == x.request.url = url_auth

C5_RaisesRuntimeError ==
    (call.op \in AuthOps /\ StatusOf(1) # HTTP_OK) =>
        result.outcome = "raised" /\ IsInstance(result.exc, "RuntimeError")

\* C6: auth() raises ValueError whenever the token endpoint answers 200 with a body that
\* is not JSON or is JSON without the access_token key.
C6_RaisesValueError ==
    (call.op \in AuthOps /\ StatusOf(1) = HTTP_OK /\ ~HasKey(BodyOf(1), "access_token")) =>
        result.outcome = "raised" /\ IsInstance(result.exc, "ValueError")

C8_ContentOn200 ==
    (/\ call.op \in ResourceOps
     /\ LastStatus = HTTP_OK
     /\ IF call.op \in ReadOps THEN SchemaValid(call.op, BodyOf(1)) ELSE IsJsonObject(BodyOf(Len(reqs)))) =>
        result.outcome = "returned" /\ result.content # NoContent

\* C8, amended: every list_* method and get_queue_item answered 200, and add_queue_item
\* answered 201, with a schema-valid JSON body returns that status and a content that is
\* not None: one record per object of the body, in order, holding under the local names
\* what the object holds under the aliases.  (The other methods return content None.)
C8_ContentOnSuccess ==
    (/\ call.op \in ReadOps
     /\ StatusOf(1) \in ExpectedCodes(call.op)
     /\ SchemaValid(call.op, BodyOf(1))) =>
        /\ result.outcome = "returned"
        /\ result.status_code = StatusOf(1)
        /\ result.content.kind = IF call.op \in ListOps THEN "list" ELSE "dict"
        /\ Len(result.content.items) = Len(Offered(call.op, BodyOf(1)))
        /\ \A i \in 1..Len(result.content.items) :
              RecordMatches(SchemaOf(call.op), Offered(call.op, BodyOf(1))[i].o,
                            result.content.items[i])

\* list_machines returned one record for a body of one machine
C8_Witness ==
    /\ call.op = "list_machines"
    /\ StatusOf(1) = HTTP_OK
    /\ SchemaValid("list_machines", BodyOf(1))
    /\ result.outcome = "returned"
    /\ Len(result.content.items) = 1

\* C9: a method that takes save_as writes the file at save_as if and only if save_as is
\* not None and the status is the one the method tests for; it then holds the raw body
\* of the response; otherwise the files are as they were.
C9_SaveAs ==
    [][(call'.op # "none" /\ "save_as" \in DOMAIN call') =>
          IF call'.save_as # None /\ reqs'[1].response.status_code \in ExpectedCodes(call'.op)
          THEN /\ files'[call'.save_as[1]] = Some(reqs'[1].response.content)
               /\ \A p \in Paths \ {call'.save_as[1]} : files'[p] = files[p]
          ELSE files' = files]_vars

\* add_queue_item was answered 201 and wrote the body to save_as
C9_Witness ==
    /\ call.op = "add_queue_item"
    /\ call.save_as = Some("out.json")
    /\ StatusOf(1) = HTTP_CREATED
    /\ files["out.json"] = Some(BodyOf(1))

\* C10: no method retries: the requests of one invocation go to different endpoints, and
\* a response with a status the method does not expect is the last of its invocation.
C10_NoRetry ==
    call.op \in ResourceOps \cup AuthOps =>
        /\ \A i, j \in 1..Len(reqs) :
              i # j => <<reqs[i].request.verb, reqs[i].request.url>>
                           # <<reqs[j].request.verb, reqs[j].request.url>>
        /\ \A i \in 1..Len(reqs) :
              StatusOf(i) \notin ExpectedCodes(call.op) => i = Len(reqs)

\* the GET of upload_bucket_file was answered 401 and nothing followed
C10_Witness ==
    /\ call.op = "upload_bucket_file"
    /\ StatusOf(1) = 401
    /\ Len(reqs) = 1

\* the responses of an invocation, in order
Responses(exchanges) == [i \in 1..Len(exchanges) |-> exchanges[i].response]

\* file systems that resource calls leave behind: the initial one, and one where an
\* earlier call answered 200 has saved the body at its save_as
FileSystems ==
    {[p \in Paths |-> IF p = "in.bin" THEN Some(NotJson) ELSE x] : x \in {None, Some(NotJson)}}

\* what the method of the call c returns or raises on a client with the configuration
\* cfg and the file system fs when its requests are answered as in the exchanges xs
ResultOf(c, cfg, fs, xs) ==
    LET rs == Responses(xs) IN
    IF c.op = "upload_bucket_file"
    THEN upload_impl(cfg, fs, c.fid, c.id, c.localpath, c.remotepath, rs[1], rs[Len(rs)]).result
    ELSE IF c.op = "add_queue_item"
    THEN add_queue_item_impl(cfg, fs, c.fid, c.queue, c.data, c.reference, c.priority,
                             c.save_as, rs[1]).result
    ELSE IF c.op \in ReadOps
    THEN ReadCall(<<>>, xs[1].request, rs[1], HTTP_OK, SchemaOf(c.op),
                  IF c.op \in ListOps THEN "list" ELSE "scalar", c.save_as, fs).result
    ELSE WriteCall(<<>>, xs[1].request, rs[1], ExpectedCodes(c.op), fs).result

\* C11, as stated: a resource call leaves the configuration unchanged, and its result
\* depends only on its arguments, the configuration and the answers of the server:
\* it is the same whatever files earlier resource calls have left behind.
C11_IndependentOfEarlierCalls ==
    [][call'.op \in ResourceOps =>
          /\ configuration' = configuration
          /\ \A fs \in FileSystems :
                ResultOf(call', configuration, fs, reqs') = result']_vars

\* C11, amended: a resource call leaves the configuration (url_base, client_id,
\* refresh_token, scope, token) unchanged, and its result depends only on its arguments,
\* the configuration, the answers of the server and, for upload_bucket_file, on whether
\* the file at localpath can be opened, which an earlier call with that path as save_as
\* changes.
C11_FrameAndDependence ==
    [][call'.op \in ResourceOps =>
          /\ configuration' = configuration
          /\ \A fs \in FileSystems :
                (call'.op = "upload_bucket_file" =>
                    (fs[call'.localpath] = None <=> files[call'.localpath] = None))
                => ResultOf(call', configuration, fs, reqs') = result']_vars

\* upload_bucket_file sent the file that an earlier resource call saved at its save_as
C11_Witness ==
    /\ call.op = "upload_bucket_file"
    /\ call.localpath = "out.json"
    /\ Len(reqs) = 2
    /\ reqs[2].request.body = FileBody("out.json")
    /\ result.outcome = "returned"

\* C12: start_job sends Strategy 'Specific' with RobotIds = [robot_id] and JobsCount 0
\* when robot_id is not None (0 included), and Strategy 'JobsCount' with JobsCount 1 and
\* no RobotIds when robot_id is None; ReleaseKey is process_key and Source is 'Manual'
\* in both cases.
C12_StartInfo ==
    call.op = "start_job" =>
        /\ Len(reqs) = 1
        /\ reqs[1].request.verb = "POST"
        /\ reqs[1].request.body.kind = "json"
        /\ DOMAIN reqs[1].request.body.doc = {"startInfo"}
        /\ LET info == reqs[1].request.body.doc.startInfo IN
           /\ info.ReleaseKey = call.process_key
           /\ info.Source = "Manual"
           /\ IF call.robot_id # None
              THEN /\ DOMAIN info = {"ReleaseKey", "Strategy", "RobotIds", "JobsCount", "Source"}
                   /\ info.Strategy = "Specific"
                   /\ info.RobotIds = <<call.robot_id[1]>>
                   /\ info.JobsCount = 0
              ELSE /\ DOMAIN info = {"ReleaseKey", "Strategy", "JobsCount", "Source"}
                   /\ info.Strategy = "JobsCount"
                   /\ info.JobsCount = 1

\* start_job was called for robot 0 and asked for that robot
C12_Witness ==
    /\ call.op = "start_job"
    /\ call.robot_id = Some(0)
    /\ reqs[1].request.body.doc.startInfo.Strategy = "Specific"
    /\ reqs[1].request.body.doc.startInfo.RobotIds = <<0>>

\* the status codes the invocation has logged, in order
IsStatusLine(rec) == \E st \in StatusCodes : rec = Info(StatusLine(st))
LoggedStatusLines == SelectSeq(log, IsStatusLine)
StatusLinesOf(exchanges) ==
    [i \in 1..Len(exchanges) |-> Info(StatusLine(exchanges[i].response.status_code))]

\* C13, as stated: the status code of every HTTP response the client receives, the
\* answer to the token request and to every request of every resource method, is logged
\* by the time the method returns.
C13_EveryStatusLogged ==
    (call.op \in ResourceOps \cup AuthOps /\ result.outcome = "returned") =>
        LoggedStatusLines = StatusLinesOf(reqs)

\* C13, amended: the status code of every HTTP response the client receives is logged
\* once, in the order of the responses, by the time the method returns or raises,
\* except the status of the PUT of upload_bucket_file, which is never logged (only
\* "File uploaded successfully" is, when that status is 200).
C13_StatusLogged ==
    call.op \in ResourceOps \cup AuthOps =>
        /\ LoggedStatusLines =
              StatusLinesOf(IF call.op = "upload_bucket_file" THEN SubSeq(reqs, 1, 1) ELSE reqs)
        /\ (call.op = "upload_bucket_file" /\ Len(reqs) = 2) =>
              (Info("File uploaded successfully") \in Range(log) <=> StatusOf(2) = HTTP_OK)

\* upload_bucket_file returned the status 401 of its PUT, and logged only the 200 of its GET
C13_Witness ==
    /\ call.op = "upload_bucket_file"
    /\ Len(reqs) = 2
    /\ StatusOf(1) = HTTP_OK
    /\ result = Returned(401, NoContent)
    /\ LoggedStatusLines = <<Info(StatusLine(HTTP_OK))>>

\* the access_token field of a token response, as the token it stores
TokenField(content) ==
    IF content.doc.o["access_token"].t = "null" THEN None
    ELSE Some(content.doc.o["access_token"].v)

C15_TokenRequestFirst ==
    /\ phase = "init" => configuration.token = None /\ reqs = <<>> /\ ctor_status = 0
    /\ call.op = "__init__" =>
          /\ Len(reqs) = 1
          /\ IsTokenRequest(reqs[1])
          /\ ctor_status = StatusOf(1)
    /\ call.op \in ResourceOps =>
          /\ phase = "ready"
          /\ ctor_status \in StatusCodes
          /\ \A i \in 1..Len(reqs) : ~IsTokenRequest(reqs[i])

\* list_assets sent its request with the token that the constructor had fetched
C15_Witness ==
    /\ call.op = "list_assets"
    /\ ctor_status = HTTP_OK
    /\ Len(reqs) = 1
    /\ configuration.token # None
    /\ CarriesToken(reqs[1].request)

\* C16: upload_bucket_file first requests a write URI with a GET and sends the PUT only
\* if that GET was answered 200; the status_code it returns is that of the PUT when the
\* GET was answered 200 and that of the GET otherwise, and the content is None in every
\* case.
C16_UploadTwoSteps ==
    call.op = "upload_bucket_file" =>
        /\ Len(reqs) \in {1, 2}
        /\ reqs[1].request.verb = "GET"
        /\ reqs[1].request.url =
              configuration.url_base \o "/odata/Buckets(" \o call.id
                  \o ")/UiPath.Server.Configuration.OData.GetWriteUri?path="
                  \o call.remotepath \o "&expiryInMinutes=0"
        /\ Len(reqs) = 2 =>
              /\ StatusOf(1) = HTTP_OK
              /\ reqs[2].request.verb = "PUT"
              /\ reqs[2].request.url = BodyOf(1).doc.o["Uri"].v
              /\ reqs[2].request.body = FileBody(call.localpath)
        /\ result.outcome = "returned" =>
              /\ result.content = NoContent
              /\ IF StatusOf(1) = HTTP_OK
                 THEN Len(reqs) = 2 /\ result.status_code = StatusOf(2)
                 ELSE Len(reqs) = 1 /\ result.status_code = StatusOf(1)

\* the GET was answered 200, the PUT 201, and upload_bucket_file returned 201
C16_Witness ==
    /\ call.op = "upload_bucket_file"
    /\ StatusOf(1) = HTTP_OK
    /\ Len(reqs) = 2
    /\ StatusOf(2) = HTTP_CREATED
    /\ result = Returned(HTTP_CREATED, NoContent)

\* C17: create_bucket, delete_bucket, delete_bucket_file, upload_bucket_file, start_job,
\* stop_job, update_queue_item and delete_queue_item return a Response whose content is
\* None for every status code, their success code included: the Response holds nothing
\* but the status code of the last answer.
C17_MutatingContentNone ==
    call.op \in WriteOps =>
        /\ result.outcome = "returned" => result = Returned(LastStatus, NoContent)
        /\ call.op # "upload_bucket_file" => result.outcome = "returned"

\* create_bucket was answered with its success code 201 and returned no content
C17_Witness ==
    /\ call.op = "create_bucket"
    /\ StatusOf(1) = HTTP_CREATED
    /\ result = Returned(HTTP_CREATED, NoContent)

-----------------------------------------------------------------------------
(* The pure functions on their own: a second specification, in which each   *)
(* step applies one of them to an input drawn from a bounded set.  call     *)
(* holds the input and result the outcome; nothing else changes.            *)

\* bodies of a collection endpoint with up to MaxValues objects
ValueBodies ==
    {JsonBytes(JObj([value |-> JList(s)])) : s \in SeqsUpTo({JObj(i) : i \in Items}, MaxValues)}
        \cup {EmptyObject}

\* _handle_response(response, model, rtype="list") as a list_* method calls it on a
\* response with status 200
handle_response ==
    /\ phase = "pure"
    /\ \E op \in ListOps, body \in ValueBodies :
          LET response == [status_code |-> HTTP_OK, content |-> body]
              handled == _handle_response(response, SchemaOf(op), "list")
          IN /\ call' = [op |-> "_handle_response", method |-> op, response |-> response]
             /\ result' = IF handled.exc = None
                          THEN Returned(HTTP_OK, handled.value)
                          ELSE Raised(handled.exc[1])
    /\ UNCHANGED <<phase, configuration, files, reqs, log, ctor_status>>

\* values of RobotVersions: lists whose first element is a mapping, with and without
\* "Version", and everything else a body can hold there
RobotVersionsValues ==
    {JList(<<JObj([Version |-> JStr("23.4")])>>),
     JList(<<JObj([Version |-> JStr("23.4")]), JObj([Version |-> JStr("22.10")])>>),
     JList(<<JObj([Version |-> JStr("23.4")]), JStr("22.10")>>),
     JList(<<JObj([Version |-> JInt("7")])>>),
     JList(<<JObj([Version |-> JNull])>>),
     JList(<<JObj([Version |-> JList(<<>>)])>>),
     JList(<<JObj([MachineId |-> JInt("7")])>>),
     JList(<<JObj(<<>>)>>),
     JList(<<>>),
     JList(<<JStr("23.4")>>),
     JList(<<JStr("23.4"), JObj([Version |-> JStr("22.10")])>>),
     JList(<<JNull>>),
     JStr("23.4"),
     JInt("7"),
     JObj([Version |-> JStr("23.4")]),
     JNull}

\* a machine as the vendor sends it, with the given RobotVersions or without the key
Machine(given, RobotVersions) ==
    [a \in {f.alias : f \in Range(ListMachines)} \ (IF given THEN {} ELSE {"RobotVersions"}) |->
        IF a = "RobotVersions" THEN RobotVersions ELSE AliasValue(a)]

\* ListMachines(**item).dict() for one machine
validate_machine ==
    /\ phase = "pure"
    /\ \E given \in BOOLEAN, RobotVersions \in RobotVersionsValues :
          LET item == Machine(given, RobotVersions)
              validated == ValidateModel(ListMachines, item)
          IN /\ call' = [op |-> "ListMachines", item |-> item]
             /\ result' = IF validated.ok
                          THEN Returned(0, DictContent(validated.val))
                          ELSE Raised("ValidationError")
    /\ UNCHANGED <<phase, configuration, files, reqs, log, ctor_status>>

InitPure ==
    /\ phase = "pure"
    /\ configuration = [url_base |-> "https://cloud.uipath.com/org/tenant/orchestrator_",
                        client_id |-> "client-id",
                        refresh_token |-> "client-secret",
                        token |-> None,
                        scope |-> "OR.Default"]
    /\ files = [p \in Paths |-> None]
    /\ call = [op |-> "none"]
    /\ reqs = <<>>
    /\ result = NoResult
    /\ log = <<>>
    /\ ctor_status = 0

NextPure ==
    \/ handle_response
    \/ validate_machine

SpecPure == InitPure /\ [][NextPure]_vars

\* C18: for a list_* method answered 200, the content is a list with exactly one record
\* per element of the "value" array of the body, in the same order; each record is
\* keyed by the local field names of the schema, not by the vendor aliases, and holds
\* None for the optional fields that the element does not have.
C18_ListRecords ==
    (call.op = "_handle_response" /\ result.outcome = "returned") =>
        LET value == call.response.content.doc.o["value"].e
            model == SchemaOf(call.method)
        IN /\ result.content.kind = "list"
           /\ Len(result.content.items) = Len(value)
           /\ \A i \in 1..Len(value) :
                 LET rec == result.content.items[i] IN
                 /\ RecordMatches(model, value[i].o, rec)
                 /\ DOMAIN rec = {f.name : f \in Range(model)}
                 /\ DOMAIN rec \cap {f.alias : f \in Range(model)} = {}
                 /\ \A f \in Range(model) :
                       (~f.required /\ f.alias \notin DOMAIN value[i].o) => rec[f.name] = PyNone

\* two assets, the first without its optional fields, came back in that order, keyed
\* by the local names
C18_Witness ==
    /\ call.op = "_handle_response"
    /\ call.method = "list_assets"
    /\ result.outcome = "returned"
    /\ call.response.content.doc.o["value"].e = <<JObj(ItemRequired), JObj(ItemFull)>>
    /\ Len(result.content.items) = 2
    /\ result.content.items[1].external_name = PyNone
    /\ result.content.items[2].external_name = PyVal("str", "x")
    /\ result.content.items[1].id = PyVal("int", "7")

\* the methods that take a filter
FilterOps == {"list_jobs", "list_queue_items", "list_robot_logs"}

\* C19: every list_* method, get_queue_item and add_queue_item sends a $select parameter
\* that is the vendor aliases of all the fields of its schema, in the order of their
\* declaration, joined by commas; list_jobs, list_queue_items and list_robot_logs also
\* send the filter of the caller, unchanged, as $filter; the others send no $filter.
C19_SelectAndFilter ==
    call.op \in ReadOps =>
        LET params == reqs[1].request.params
            model == SchemaOf(call.op)
        IN /\ params["$select"] = Join([i \in 1..Len(model) |-> model[i].alias], ",")
           /\ call.op = "list_buckets" => params["$select"] = "Id,Identifier,Name,Description"
           /\ call.op = "add_queue_item" =>
                 params["$select"] = "Id,OrganizationUnitId,QueueDefinitionId"
           /\ IF call.op \in FilterOps
              THEN DOMAIN params = {"$select", "$filter"} /\ params["$filter"] = call.filter
              ELSE DOMAIN params = {"$select"}

\* list_queue_items sent the filter of its caller next to the fields of its schema
C19_Witness ==
    /\ call.op = "list_queue_items"
    /\ call.filter = "Reference eq 'ref-1'"
    /\ reqs[1].request.params["$filter"] = "Reference eq 'ref-1'"
    /\ reqs[1].request.params["$select"] = Join(alias_list(ListQueueItems), ",")

\* what the claim says RobotVersions is mapped to, as a JSON value (null for None)
FirstVersion(item) ==
    IF "RobotVersions" \notin DOMAIN item THEN JNull
    ELSE LET value == item["RobotVersions"] IN
         IF value.t # "list" THEN JNull
         ELSE IF value.e = <<>> THEN JNull
         ELSE IF Head(value.e).t # "obj" THEN JNull
         ELSE IF "Version" \notin DOMAIN Head(value.e).o THEN JNull
         ELSE Head(value.e).o["Version"]

====
